---- MODULE Spec2Model ----
(***************************************************************************)
(* A model of the go.redis client library.                                 *)
(*                                                                         *)
(*  - Spec      : the pooled Client whose pool is a channel created on     *)
(*                first use (client.go; the revision with the PoolSize     *)
(*                check), shared by concurrent callers.                    *)
(*  - SpecPool  : the Client built by NewClient over connPool, with        *)
(*                connections made by NewConn (redis.go, connection.go).   *)
(*  - SpecAsync : the AsyncClient (redis.go), used by one caller.          *)
(*                                                                         *)
(* A Go channel is a bounded FIFO sequence.  A send or receive statement   *)
(* evaluates its channel operand first and then waits on that channel,     *)
(* so each is two steps here: the unsynchronised accesses to c.pool are    *)
(* visible between them.                                                   *)
(***************************************************************************)
EXTENDS Integers, Sequences, FiniteSets, TLC

\* ---------------------------------------------------------------- bounds
NCallers == 2          \* goroutines sharing one Client
MaxCalls == 3          \* Calls issued on the Client, all goroutines together
MaxPool  == 1          \* largest PoolSize tried on the Client with the lazy pool
MaxMax   == 2          \* largest max given to NewClient
MaxTimeout == 1        \* largest Client.Timeout tried, in clock ticks
MaxTime  == 3          \* the clock stops here

Callers  == 1..NCallers
ChanIds  == 1..NCallers            \* a goroutine makes at most one channel
MaxReads == MaxCalls               \* Reads invoked on the AsyncClient
ConnIds  == 1..MaxReads            \* a Call or a Read dials at most once

NilChan  == 0          \* Go's nil channel
NilConn  == 0          \* Go's nil Conn
NoCmd    == <<0, 0>>   \* a nil *Reply: the reply to no command

VARIABLES
  poolSize,   \* Client.PoolSize / the max given to newConnPool
  password,   \* Client.Password of the Client made by NewClient
  db,         \* Client.Db of the Client made by NewClient
  pool,       \* Client.pool: NilChan or the id of the current channel
  nchans,     \* channels made so far
  chans,      \* chans[c]: contents of channel c, oldest first
  seedI,      \* seedI[s]: loop variable i of the goroutine seeding for channel s
  seedCh,     \* seedCh[s]: channel operand that seeder's pending send evaluated
  pc,         \* pc[g]: position of goroutine g inside Call
  ch,         \* ch[g]: channel operand evaluated by g's pending receive/send
  conn,       \* conn[g]: local variable conn of Call
  err,        \* err[g]: local variable err of Call
  calls,      \* calls[g]: Calls g has started
  pushes,     \* pushes[g]: sends to the pool completed by g's current Call
  result,     \* result[g]: what g's last returned Call returned
  sock,       \* sock[k]: state of the socket of connection k
  pending,    \* pending[k]: commands written on k whose reply is not yet read
  hs,         \* hs[k]: socket operations of k's handshake, in order
  hsConn,     \* hsConn[g]: local variable c of the NewConn g is inside
  acBuf,      \* AsyncClient.buf: the commands written to it and not yet sent
  acConn,     \* AsyncClient.conn
  acQueued,   \* AsyncClient.queued
  acCalls,    \* Calls made on the AsyncClient
  acLog,      \* what each returned Read of the AsyncClient returned, in order
  acState,    \* "ready", or "blocked" in a socket read, or "panicked"
  acAtClose,  \* the commands that were in AsyncClient.buf when Close was called
  ra,         \* the ReadAll in progress, or what ReadAll returned just now
  timeout,    \* Client.Timeout, in clock ticks
  now,        \* the clock: what time.Now() returns
  start,      \* start[g]: local variable start of Call
  dialAt      \* dialAt[g]: when g's Dial was called

vars == <<poolSize, password, db, pool, nchans, chans, seedI, seedCh, pc, ch, conn, err,
          calls, pushes, result, sock, pending, hs, hsConn,
          acBuf, acConn, acQueued, acCalls, acLog, acState, acAtClose, ra,
          timeout, now, start, dialAt>>

cfgVars  == <<poolSize, password, db, timeout>>
timeVars == <<now, start, dialAt>>
poolVars == <<pool, nchans, chans, seedI, seedCh>>
goVars   == <<pc, ch, conn, err, calls, pushes, result>>
netVars  == <<sock, pending, hs>>
asyncVars == <<acBuf, acConn, acQueued, acCalls, acLog, acState, acAtClose, ra>>

\* ------------------------------------------------------ helper operators
NewConnId == CHOOSE k \in ConnIds : sock[k] = "none" /\ \A j \in 1..(k-1) : sock[j] # "none"

OpenSockets == {k \in ConnIds : sock[k] = "open"}

RECURSIVE SumTo(_, _)
SumTo(f, n) == IF n = 0 THEN 0 ELSE f[n] + SumTo(f, n - 1)

\* Calls started so far, all goroutines together
TotalCalls == SumTo(calls, NCallers)

\* no Call has returned
NoResult == [reply |-> NoCmd, err |-> "none"]

\* the command of g's current Call
Cmd(g) == <<g, calls[g]>>

\* no ReadAll is in progress or has just returned
NoReadAll == [pc |-> "idle", replies |-> <<>>, q0 |-> 0, n0 |-> 0,
              out |-> [replies |-> <<>>, err |-> "none"]]

\* ------------------------------------------------------------- Init
\* no goroutine is inside Call, no socket exists, the AsyncClient is fresh
InitRest ==
  /\ seedI = [c \in ChanIds |-> 0]
  /\ seedCh = [c \in ChanIds |-> NilChan]
  /\ pc = [g \in Callers |-> "idle"]
  /\ ch = [g \in Callers |-> NilChan]
  /\ conn = [g \in Callers |-> NilConn]
  /\ err = [g \in Callers |-> "nil"]
  /\ calls = [g \in Callers |-> 0]
  /\ pushes = [g \in Callers |-> 0]
  /\ result = [g \in Callers |-> NoResult]
  /\ sock = [k \in ConnIds |-> "none"]
  /\ pending = [k \in ConnIds |-> <<>>]
  /\ hs = [k \in ConnIds |-> <<>>]
  /\ hsConn = [g \in Callers |-> NilConn]
  /\ acBuf = <<>>
  /\ acConn = NilConn
  /\ acQueued = 0
  /\ acCalls = 0
  /\ acLog = <<>>
  /\ acState = "ready"
  /\ acAtClose = {}
  /\ ra = NoReadAll
  /\ now = 0
  /\ start = [g \in Callers |-> 0]
  /\ dialAt = [g \in Callers |-> 0]

\* a Client literal with PoolSize and a Timeout set, its pool still nil
Init ==
  /\ poolSize \in 0..MaxPool
  /\ timeout \in 1..MaxTimeout
  /\ password = ""
  /\ db = 0
  /\ pool = NilChan
  /\ nchans = 0
  /\ chans = [c \in ChanIds |-> <<>>]
  /\ InitRest

\* ------------------------------------------------- channel operations
\* c <- v can proceed: c is not nil and its buffer has room
CanSend(c) == c # NilChan /\ Len(chans[c]) < poolSize

\* <-c can proceed: c is not nil and its buffer is not empty
CanRecvNoDial(c) ==
  /\ c # NilChan
  /\ chans[c] # <<>>
  /\ \A g \in Callers : pc[g] \notin {"dial", "newconn", "handshake"}
CanRecv(c) == c # NilChan /\ chans[c] # <<>>

\* the buffer of a channel after c <- v
SendRestDropped(q, v) == q
SendRest(q, v) == Append(q, v)

\* the buffer of a channel after <-c took its oldest element
RecvRestKept(q) == q
RecvRest(q) == Tail(q)

\* ------------------------------------------------------- Client.Call
\* where Call goes once err # nil: it returns, which runs the deferred send
ErrorExitNoDefer(g) == "idle"
ErrorExit(g) == "defer"

\* Call is entered: start := time.Now(); conn, err := c.connect(), up to
\* connect's test of c.pool: if c.pool == nil { if c.PoolSize == 0 { return ... } }
CallStart(g) ==
  /\ pc[g] = "idle"
  /\ TotalCalls < MaxCalls
  /\ calls' = [calls EXCEPT ![g] = @ + 1]
  /\ pushes' = [pushes EXCEPT ![g] = 0]
  /\ result' = [result EXCEPT ![g] = NoResult]
  /\ IF pool = NilChan
       THEN IF poolSize = 0
              THEN /\ err' = [err EXCEPT ![g] = "errPoolSizeNotSpecified"]
                   /\ pc' = [pc EXCEPT ![g] = ErrorExit(g)]
              ELSE /\ pc' = [pc EXCEPT ![g] = "make"]
                   /\ UNCHANGED err
       ELSE /\ pc' = [pc EXCEPT ![g] = "recv"]
            /\ UNCHANGED err
  /\ start' = [start EXCEPT ![g] = now]
  /\ UNCHANGED <<cfgVars, hsConn, now, dialAt, asyncVars, poolVars, ch, conn, netVars>>

\* connect: c.pool = make(chan Conn, c.PoolSize); go func() {...}()
connectMake(g) ==
  /\ pc[g] = "make"
  /\ nchans' = nchans + 1
  /\ pool' = nchans + 1
  /\ pc' = [pc EXCEPT ![g] = "recv"]
  /\ UNCHANGED <<cfgVars, hsConn, timeVars, asyncVars, chans, seedI, seedCh, ch, conn, err, calls, pushes,
                 result, netVars>>

\* the seeding goroutine of channel s: the operand c.pool of c.pool <- nil
seedEval(s) ==
  /\ s <= nchans
  /\ seedI[s] < poolSize
  /\ seedCh[s] = NilChan
  /\ seedCh' = [seedCh EXCEPT ![s] = pool]
  /\ UNCHANGED <<cfgVars, hsConn, timeVars, asyncVars, pool, nchans, chans, seedI, goVars, netVars>>

\* the seeding goroutine of channel s: c.pool <- nil completes; i++
seedSend(s) ==
  /\ s <= nchans
  /\ seedCh[s] # NilChan
  /\ CanSend(seedCh[s])
  /\ chans' = [chans EXCEPT ![seedCh[s]] = SendRest(@, NilConn)]
  /\ seedI' = [seedI EXCEPT ![s] = @ + 1]
  /\ seedCh' = [seedCh EXCEPT ![s] = NilChan]
  /\ UNCHANGED <<cfgVars, hsConn, timeVars, asyncVars, pool, nchans, goVars, netVars>>

\* connect: the operand c.pool of conn = <-c.pool
connectEval(g) ==
  /\ pc[g] = "recv"
  /\ ch' = [ch EXCEPT ![g] = pool]
  /\ pc' = [pc EXCEPT ![g] = "recvwait"]
  /\ UNCHANGED <<cfgVars, hsConn, timeVars, asyncVars, poolVars, conn, err, calls, pushes, result, netVars>>

\* connect: conn = <-c.pool completes
connectRecv(g) ==
  /\ pc[g] = "recvwait"
  /\ CanRecv(ch[g])
  /\ conn' = [conn EXCEPT ![g] = Head(chans[ch[g]])]
  /\ chans' = [chans EXCEPT ![ch[g]] = RecvRest(@)]
  /\ ch' = [ch EXCEPT ![g] = NilChan]
  /\ pc' = [pc EXCEPT ![g] = IF Head(chans[ch[g]]) = NilConn THEN "dial"
                                                              ELSE "io"]
  /\ dialAt' = [dialAt EXCEPT ![g] = now]
  /\ UNCHANGED <<cfgVars, hsConn, now, start, asyncVars, pool, nchans, seedI, seedCh, err, calls,
                 pushes, result, netVars>>

\* Dial(addr, proto, timeout): a fresh Connection on a fresh socket, or an error
Dial(ok) ==
  IF ok THEN [conn |-> NewConnId, err |-> "nil",
              sock |-> [sock EXCEPT ![NewConnId] = "open"]]
        ELSE [conn |-> NilConn, err |-> "dial", sock |-> sock]

\* connect: if conn == nil { conn, err = Dial(...); if err != nil { return nil, err } }
connectDial(g) ==
  /\ pc[g] = "dial"
  /\ \E ok \in BOOLEAN :
       LET d == Dial(ok) IN
         /\ conn' = [conn EXCEPT ![g] = d.conn]
         /\ err' = [err EXCEPT ![g] = d.err]
         /\ sock' = d.sock
         /\ pc' = [pc EXCEPT ![g] = IF d.err = "nil" THEN "io"
                                                     ELSE ErrorExit(g)]
  /\ UNCHANGED <<cfgVars, hsConn, timeVars, asyncVars, poolVars, ch, calls, pushes, result, pending, hs>>

\* conn.Sock().SetDeadline(start.Add(c.Timeout)): the socket takes the deadline or not
SetDeadline(ok) == IF ok THEN "nil" ELSE "deadline"

\* connection.Write: the formatted command goes to the socket, or an error
Write(k, cmd, ok) ==
  IF ok THEN [err |-> "nil", pending |-> [pending EXCEPT ![k] = Append(@, cmd)]]
        ELSE [err |-> "write", pending |-> pending]

\* What Parse can find at the head of the input of a connection with unread
\* replies p: the server's next reply (to the oldest unanswered command),
\* that reply being an Error reply, or a failure of the stream (deadline,
\* EOF) that consumes nothing.
ParseOutcomes(p) ==
  (IF p # <<>> THEN {"reply", "errorReply"} ELSE {}) \cup {"ioError"}

\* connection.Read on a connection with unread replies p:
\* reply := Parse(c.rbuf); if reply.Err != nil { return nil, reply.Err }
ReadNoErrCheck(p, o) ==
  CASE o \in {"reply", "errorReply"}
                        -> [reply |-> Head(p), err |-> "nil", rest |-> Tail(p)]
    [] OTHER            -> [reply |-> NoCmd, err |-> "read", rest |-> p]
Read(p, o) ==
  CASE o = "reply"      -> [reply |-> Head(p), err |-> "nil", rest |-> Tail(p)]
    [] o = "errorReply" -> [reply |-> NoCmd, err |-> "server", rest |-> Tail(p)]
    [] OTHER            -> [reply |-> NoCmd, err |-> "read", rest |-> p]

\* the deadline start.Add(c.Timeout) of g's Call has passed
Expired(g) == now >= start[g] + timeout

\* Call after connect: SetDeadline, then conn.Write, each returning at its
\* error.  They touch only the socket of the connection g holds.  A Write on
\* a socket whose deadline has passed fails.
CallWrite(g) ==
  /\ pc[g] = "io"
  /\ \E dl \in BOOLEAN, wr \in (IF Expired(g) THEN {FALSE} ELSE BOOLEAN) :
       LET k == conn[g]
           e1 == SetDeadline(dl)
           w == Write(k, Cmd(g), wr)
       IN IF e1 # "nil"
            THEN /\ err' = [err EXCEPT ![g] = e1]
                 /\ pc' = [pc EXCEPT ![g] = ErrorExit(g)]
                 /\ UNCHANGED pending
            ELSE /\ err' = [err EXCEPT ![g] = w.err]
                 /\ pending' = w.pending
                 /\ pc' = [pc EXCEPT ![g] = IF w.err # "nil" THEN ErrorExit(g)
                                                             ELSE "read"]
  /\ UNCHANGED <<cfgVars, hsConn, timeVars, asyncVars, poolVars, ch, conn, calls, pushes,
                 result, sock, hs>>

\* Call: reply, err := conn.Read(); return reply, err.  The Read returns when
\* Parse has found something on the socket; once the deadline has passed that
\* is the failure of the stream.
CallRead(g) ==
  /\ pc[g] = "read"
  /\ LET k == conn[g] IN
       \E o \in (IF Expired(g) THEN {"ioError"} ELSE ParseOutcomes(pending[k])) :
         LET r == Read(pending[k], o) IN
           /\ err' = [err EXCEPT ![g] = r.err]
           /\ pending' = [pending EXCEPT ![k] = r.rest]
           /\ result' = [result EXCEPT ![g] = [reply |-> r.reply, err |-> r.err]]
           /\ pc' = [pc EXCEPT ![g] = "defer"]
  /\ UNCHANGED <<cfgVars, hsConn, timeVars, asyncVars, poolVars, ch, conn, calls, pushes,
                 sock, hs>>

\* Call's deferred function: the operand c.pool of c.pool <- conn
CallDeferEval(g) ==
  /\ pc[g] = "defer"
  /\ ch' = [ch EXCEPT ![g] = pool]
  /\ pc' = [pc EXCEPT ![g] = "send"]
  /\ UNCHANGED <<cfgVars, hsConn, timeVars, asyncVars, poolVars, conn, err, calls, pushes, result, netVars>>

\* Call's deferred function: c.pool <- conn completes, and Call returns
CallDeferSendDiscarding(g) ==
  /\ pc[g] = "send"
  /\ CanSend(ch[g])
  /\ LET broken == conn[g] # NilConn /\ err[g] # "nil" IN
       /\ chans' = [chans EXCEPT ![ch[g]] =
                      SendRest(@, IF broken THEN NilConn ELSE conn[g])]
       /\ sock' = IF broken THEN [sock EXCEPT ![conn[g]] = "closed"] ELSE sock
  /\ pushes' = [pushes EXCEPT ![g] = @ + 1]
  /\ result' = [result EXCEPT ![g] =
                  IF err[g] \in {"nil", "server", "read"} THEN @
                  ELSE [reply |-> NoCmd, err |-> err[g]]]
  /\ ch' = [ch EXCEPT ![g] = NilChan]
  /\ conn' = [conn EXCEPT ![g] = NilConn]
  /\ err' = [err EXCEPT ![g] = "nil"]
  /\ pc' = [pc EXCEPT ![g] = "idle"]
  /\ UNCHANGED <<cfgVars, hsConn, timeVars, asyncVars, pool, nchans, seedI, seedCh, calls, pending, hs>>
CallDeferSend(g) ==
  /\ pc[g] = "send"
  /\ CanSend(ch[g])
  /\ chans' = [chans EXCEPT ![ch[g]] = SendRest(@, conn[g])]
  /\ pushes' = [pushes EXCEPT ![g] = @ + 1]
  /\ result' = [result EXCEPT ![g] =
                  IF err[g] \in {"nil", "server", "read"} THEN @
                  ELSE [reply |-> NoCmd, err |-> err[g]]]
  /\ ch' = [ch EXCEPT ![g] = NilChan]
  /\ conn' = [conn EXCEPT ![g] = NilConn]
  /\ err' = [err EXCEPT ![g] = "nil"]
  /\ pc' = [pc EXCEPT ![g] = "idle"]
  /\ UNCHANGED <<cfgVars, hsConn, timeVars, asyncVars, pool, nchans, seedI, seedCh, calls, netVars>>

Next ==
  \/ \E g \in Callers :
       \/ CallStart(g)
       \/ connectMake(g)
       \/ connectEval(g)
       \/ connectRecv(g)
       \/ connectDial(g)
       \/ CallWrite(g)
       \/ CallRead(g)
       \/ CallDeferEval(g)
       \/ CallDeferSend(g)
  \/ \E s \in ChanIds : seedEval(s) \/ seedSend(s)

Spec == Init /\ [][Next]_vars

\* ------------------------------------------------------------------------
\* The same Client with the clock running (SpecTimed)
\* ------------------------------------------------------------------------
\* Time passes only while every goroutine is outside Call or in a step that
\* waits: a channel operation that cannot proceed, a Dial that has not used
\* up its timeout, socket I/O before its deadline.  Every other step takes
\* no time.

\* g is outside Call or in a step that can last beyond now
Waiting(g) ==
  \/ pc[g] = "idle"
  \/ pc[g] = "recvwait" /\ ~CanRecv(ch[g])
  \/ pc[g] = "send" /\ ~CanSend(ch[g])
  \/ pc[g] = "dial" /\ now < dialAt[g] + timeout
  \/ pc[g] \in {"io", "read"} /\ ~Expired(g)

\* the seeding goroutine of channel s has a step it can take
Seeding(s) ==
  /\ s <= nchans
  /\ \/ seedI[s] < poolSize /\ seedCh[s] = NilChan
     \/ seedCh[s] # NilChan /\ CanSend(seedCh[s])

\* the clock advances
Tick ==
  /\ now < MaxTime
  /\ \A g \in Callers : Waiting(g)
  /\ \A s \in ChanIds : ~Seeding(s)
  /\ now' = now + 1
  /\ UNCHANGED <<cfgVars, hsConn, start, dialAt, asyncVars, poolVars, goVars, netVars>>

NextTimed ==
  \/ \E g \in Callers :
       \/ CallStart(g)
       \/ connectMake(g)
       \/ connectEval(g)
       \/ connectRecv(g)
       \/ connectDial(g)
       \/ CallWrite(g)
       \/ CallRead(g)
       \/ CallDeferEval(g)
       \/ CallDeferSend(g)
  \/ \E s \in ChanIds : seedEval(s) \/ seedSend(s)
  \/ Tick

SpecTimed == Init /\ [][NextTimed]_vars

\* ------------------------------------------------------------------------
\* The Client made by NewClient: connPool and NewConn (SpecPool)
\* ------------------------------------------------------------------------
PoolFree == 1          \* the channel connPool.free

\* newConnPool(max): free is made with capacity max and filled with max nils
newConnPool(max) == [i \in 1..max |-> NilConn]

\* NewClient(addr, db, password, max)
InitPool ==
  /\ poolSize \in 0..MaxMax
  /\ timeout = 0
  /\ password \in {"", "secret"}
  /\ db \in {0, 1}
  /\ pool = PoolFree
  /\ nchans = 1
  /\ chans = [c \in ChanIds |-> IF c = PoolFree THEN newConnPool(poolSize) ELSE <<>>]
  /\ InitRest

\* the handshake of NewConn after a successful net.Dial: AUTH if password is
\* not empty, then SELECT if db is not 0, each a Write followed by a Read,
\* returning at the first error.  io says which socket operations succeed.
HandshakePipelined(pw, d, io) ==
  LET ws == (IF pw # "" THEN <<"write AUTH">> ELSE <<>>)
              \o (IF d # 0 THEN <<"write SELECT">> ELSE <<>>)
      rs == (IF pw # "" THEN <<"read AUTH">> ELSE <<>>)
              \o (IF d # 0 THEN <<"read SELECT">> ELSE <<>>)
      ok == (pw = "" \/ (io.authW /\ io.authR)) /\ (d = 0 \/ (io.selW /\ io.selR))
  IN [err |-> IF ok THEN "nil" ELSE "write", ops |-> ws \o rs]
Handshake(pw, d, io) ==
  LET auth == IF pw = "" THEN [err |-> "nil", ops |-> <<>>]
              ELSE IF ~io.authW THEN [err |-> "write", ops |-> <<"write AUTH">>]
              ELSE IF ~io.authR
                     THEN [err |-> "read", ops |-> <<"write AUTH", "read AUTH">>]
                     ELSE [err |-> "nil", ops |-> <<"write AUTH", "read AUTH">>]
      sel  == IF d = 0 THEN [err |-> "nil", ops |-> <<>>]
              ELSE IF ~io.selW THEN [err |-> "write", ops |-> <<"write SELECT">>]
              ELSE IF ~io.selR
                     THEN [err |-> "read", ops |-> <<"write SELECT", "read SELECT">>]
                     ELSE [err |-> "nil", ops |-> <<"write SELECT", "read SELECT">>]
  IN IF auth.err # "nil" THEN auth
     ELSE [err |-> sel.err, ops |-> auth.ops \o sel.ops]

IOChoices == [dial : BOOLEAN, authW : BOOLEAN, authR : BOOLEAN,
              selW : BOOLEAN, selR : BOOLEAN]

AllSucceed == [dial |-> TRUE, authW |-> TRUE, authR |-> TRUE,
               selW |-> TRUE, selR |-> TRUE]

\* NewConn(addr, proto, db, password): net.Dial, then the handshake.  A
\* failed handshake returns nil and the error; the dialed socket is not closed.
\* hs[k] ends with "error" when the handshake on k failed.
NewConn(pw, d, io) ==
  IF ~io.dial
    THEN [conn |-> NilConn, err |-> "dial", sock |-> sock, hs |-> hs]
    ELSE LET k == NewConnId
             h == Handshake(pw, d, io)
         IN [conn |-> IF h.err = "nil" THEN k ELSE NilConn,
             err  |-> h.err,
             sock |-> [sock EXCEPT ![k] = "open"],
             hs   |-> [hs EXCEPT ![k] = <<"dial">> \o h.ops
                                          \o (IF h.err = "nil" THEN <<>>
                                                               ELSE <<"error">>)]]

\* Client.Call is entered: conn, err := c.connect()
PoolCallStart(g) ==
  /\ pc[g] = "idle"
  /\ TotalCalls < MaxCalls
  /\ calls' = [calls EXCEPT ![g] = @ + 1]
  /\ pushes' = [pushes EXCEPT ![g] = 0]
  /\ result' = [result EXCEPT ![g] = NoResult]
  /\ pc' = [pc EXCEPT ![g] = "pop"]
  /\ UNCHANGED <<cfgVars, hsConn, timeVars, asyncVars, poolVars, ch, conn, err, netVars>>

\* connect: conn = c.pool.pop(), that is <-p.free
popAlwaysDial(g) ==
  /\ pc[g] = "pop"
  /\ CanRecv(PoolFree)
  /\ conn' = [conn EXCEPT ![g] = Head(chans[PoolFree])]
  /\ chans' = [chans EXCEPT ![PoolFree] = RecvRest(@)]
  /\ pc' = [pc EXCEPT ![g] = "newconn"]
  /\ UNCHANGED <<cfgVars, hsConn, timeVars, asyncVars, pool, nchans, seedI, seedCh, ch, err, calls, pushes,
                 result, netVars>>
pop(g) ==
  /\ pc[g] = "pop"
  /\ CanRecv(PoolFree)
  /\ conn' = [conn EXCEPT ![g] = Head(chans[PoolFree])]
  /\ chans' = [chans EXCEPT ![PoolFree] = RecvRest(@)]
  /\ pc' = [pc EXCEPT ![g] = IF Head(chans[PoolFree]) = NilConn THEN "newconn"
                                                                ELSE "io"]
  /\ UNCHANGED <<cfgVars, hsConn, timeVars, asyncVars, pool, nchans, seedI, seedCh, ch, err, calls, pushes,
                 result, netVars>>

\* connect: if conn == nil { conn, err = NewConn(...) }, up to NewConn's
\* net.Dial and c := &connection{...}.  With nothing to send in the handshake
\* NewConn returns c at once.
NewConnDial(g) ==
  /\ pc[g] = "newconn"
  /\ \E ok \in BOOLEAN :
       IF ~ok
         THEN /\ err' = [err EXCEPT ![g] = "dial"]
              /\ pc' = [pc EXCEPT ![g] = "push"]
              /\ UNCHANGED <<conn, sock, hs, hsConn>>
         ELSE LET k == NewConnId IN
                /\ sock' = [sock EXCEPT ![k] = "open"]
                /\ hs' = [hs EXCEPT ![k] = <<"dial">>]
                /\ IF Handshake(password, db, AllSucceed).ops = <<>>
                     THEN /\ conn' = [conn EXCEPT ![g] = k]
                          /\ pc' = [pc EXCEPT ![g] = "io"]
                          /\ UNCHANGED hsConn
                     ELSE /\ hsConn' = [hsConn EXCEPT ![g] = k]
                          /\ pc' = [pc EXCEPT ![g] = "handshake"]
                          /\ UNCHANGED conn
                /\ UNCHANGED err
  /\ UNCHANGED <<cfgVars, timeVars, asyncVars, poolVars, ch, calls, pushes, result, pending>>

\* NewConn: the next socket operation of the handshake on c, a c.Write or a
\* c.Read.  When it fails NewConn returns nil and the error, and connect
\* returns them; after the last one NewConn returns c and connect returns it.
\* A c.Read has no deadline: this step may never come.
NewConnHandshake(g) ==
  /\ pc[g] = "handshake"
  /\ \E io \in IOChoices :
       LET k == hsConn[g]
           h == Handshake(password, db, io)
           done == Tail(hs[k])
           i == Len(done) + 1
       IN /\ i <= Len(h.ops)
          /\ SubSeq(h.ops, 1, Len(done)) = done
          /\ LET last == i = Len(h.ops)
                 failed == last /\ h.err # "nil"
             IN /\ hs' = [hs EXCEPT ![k] = @ \o <<h.ops[i]>>
                                             \o (IF failed THEN <<"error">> ELSE <<>>)]
                /\ err' = [err EXCEPT ![g] = IF failed THEN h.err ELSE @]
                /\ conn' = [conn EXCEPT ![g] = IF last /\ ~failed THEN k ELSE @]
                /\ hsConn' = [hsConn EXCEPT ![g] = IF last THEN NilConn ELSE @]
                /\ pc' = [pc EXCEPT ![g] = IF failed THEN "push"
                                           ELSE IF last THEN "io" ELSE @]
  /\ UNCHANGED <<cfgVars, timeVars, asyncVars, poolVars, ch, calls, pushes, result, sock,
                 pending>>

\* Call after connect: err = conn.Write(args...); if err != nil { return nil, err }
PoolCallWrite(g) ==
  /\ pc[g] = "io"
  /\ \E wr \in BOOLEAN :
       LET w == Write(conn[g], Cmd(g), wr) IN
         /\ err' = [err EXCEPT ![g] = w.err]
         /\ pending' = w.pending
         /\ pc' = [pc EXCEPT ![g] = IF w.err # "nil" THEN "push" ELSE "read"]
  /\ UNCHANGED <<cfgVars, hsConn, timeVars, asyncVars, poolVars, ch, conn, calls, pushes,
                 result, sock, hs>>

\* Call: return conn.Read().  The socket has no deadline: this step may never
\* come.
PoolCallRead(g) ==
  /\ pc[g] = "read"
  /\ LET k == conn[g] IN
       \E o \in ParseOutcomes(pending[k]) :
         LET r == Read(pending[k], o) IN
           /\ err' = [err EXCEPT ![g] = r.err]
           /\ pending' = [pending EXCEPT ![k] = r.rest]
           /\ result' = [result EXCEPT ![g] = [reply |-> r.reply, err |-> r.err]]
           /\ pc' = [pc EXCEPT ![g] = "push"]
  /\ UNCHANGED <<cfgVars, hsConn, timeVars, asyncVars, poolVars, ch, conn, calls, pushes,
                 sock, hs>>

\* Call's defer c.pool.push(conn): p.free <- c completes, and Call returns:
\* what conn.Read() returned when Call got that far, else nil and the err of
\* connect or of conn.Write
push(g) ==
  /\ pc[g] = "push"
  /\ CanSend(PoolFree)
  /\ chans' = [chans EXCEPT ![PoolFree] = SendRest(@, conn[g])]
  /\ pushes' = [pushes EXCEPT ![g] = @ + 1]
  /\ result' = [result EXCEPT ![g] =
                  IF @ # NoResult THEN @
                  ELSE [reply |-> NoCmd, err |-> err[g]]]
  /\ conn' = [conn EXCEPT ![g] = NilConn]
  /\ err' = [err EXCEPT ![g] = "nil"]
  /\ pc' = [pc EXCEPT ![g] = "idle"]
  /\ UNCHANGED <<cfgVars, hsConn, timeVars, asyncVars, pool, nchans, seedI, seedCh, ch, calls, netVars>>

NextPool ==
  \E g \in Callers :
    \/ PoolCallStart(g)
    \/ pop(g)
    \/ NewConnDial(g)
    \/ NewConnHandshake(g)
    \/ PoolCallWrite(g)
    \/ PoolCallRead(g)
    \/ push(g)

SpecPool == InitPool /\ [][NextPool]_vars

\* every goroutine that can take a step inside Call takes it: the scheduler
\* runs every runnable goroutine, and a socket operation returns
PoolStep(g) ==
  \/ pop(g) \/ NewConnDial(g) \/ NewConnHandshake(g)
  \/ PoolCallWrite(g) \/ PoolCallRead(g) \/ push(g)

SpecPoolFair == SpecPool /\ \A g \in Callers : WF_vars(PoolStep(g))


\* ------------------------------------------------------------------------
\* The AsyncClient, used by one caller (SpecAsync)
\* ------------------------------------------------------------------------

\* c.AsyncClient() on a Client made by NewClient
InitAsync ==
  /\ poolSize = MaxPool
  /\ timeout = 0
  /\ password \in {"", "secret"}
  /\ db \in {0, 1}
  /\ pool = PoolFree
  /\ nchans = 1
  /\ chans = [c \in ChanIds |-> IF c = PoolFree THEN newConnPool(poolSize) ELSE <<>>]
  /\ InitRest

\* the n-th command given to AsyncClient.Call
AsyncCmd(n) == <<0, n>>

\* ac.buf.Write(format(args...)): the command goes to the end of the buffer
BufWritePrepended(b, cmd) == <<cmd>> \o b
BufWrite(b, cmd) == Append(b, cmd)

\* ac.queued++
EnqueueSkipped(q) == q
Enqueue(q) == q + 1

\* a Call that hands the command to the connection when there is one
AsyncCallFlushing ==
  /\ acState = "ready"
  /\ ra.pc # "loop"
  /\ acCalls < MaxCalls
  /\ acCalls' = acCalls + 1
  /\ IF acConn = NilConn
       THEN /\ acBuf' = BufWrite(acBuf, AsyncCmd(acCalls + 1))
            /\ UNCHANGED pending
       ELSE /\ pending' = [pending EXCEPT ![acConn] = Append(@, AsyncCmd(acCalls + 1))]
            /\ UNCHANGED acBuf
  /\ acQueued' = Enqueue(acQueued)
  /\ ra' = NoReadAll
  /\ UNCHANGED <<cfgVars, hsConn, timeVars, poolVars, goVars, sock, hs, acConn, acLog, acState,
                 acAtClose>>

\* AsyncClient.Call
AsyncCall ==
  /\ acState = "ready"
  /\ ra.pc # "loop"
  /\ acCalls < MaxCalls
  /\ acCalls' = acCalls + 1
  /\ acBuf' = BufWrite(acBuf, AsyncCmd(acCalls + 1))
  /\ acQueued' = Enqueue(acQueued)
  /\ ra' = NoReadAll
  /\ UNCHANGED <<cfgVars, hsConn, timeVars, poolVars, goVars, netVars, acConn, acLog, acState,
                 acAtClose>>

\* what a Read returned: the reply and error it returned, the command whose
\* reply it took off the socket (NoCmd when it took none), and what Parse
\* found ("none" when the Read returned before ac.conn.Read())
Returned(reply, e, of, parsed) ==
  [reply |-> reply, err |-> e, of |-> of, parsed |-> parsed]

\* ac.buf.WriteTo(ac.conn.Sock()) of buffer b: everything is written and the
\* buffer is reset, or the write fails after the first n commands (n < Len(b))
WriteToNoReset(b, n) ==
  IF n = Len(b) THEN [err |-> "nil", sent |-> b, buf |-> b]
  ELSE [err |-> "write", sent |-> SubSeq(b, 1, n), buf |-> SubSeq(b, n + 1, Len(b))]
WriteTo(b, n) ==
  IF n = Len(b) THEN [err |-> "nil", sent |-> b, buf |-> <<>>]
  ELSE [err |-> "write", sent |-> SubSeq(b, 1, n), buf |-> SubSeq(b, n + 1, Len(b))]

\* ac.queued-- after ac.conn.Read() returned reply and e, whatever e is
DequeueOnSuccess(q, e) == IF e = "nil" THEN q - 1 ELSE q
Dequeue(q, e) == q - 1

\* AsyncClient.Read
AsyncRead ==
  /\ acState = "ready"
  /\ Len(acLog) < MaxReads
  /\ \E io \in (IF acConn = NilConn THEN IOChoices ELSE {AllSucceed}),
        n \in 0..Len(acBuf) :
       LET nc == IF acConn = NilConn
                   THEN NewConn(password, db, io)
                   ELSE [conn |-> acConn, err |-> "nil", sock |-> sock, hs |-> hs]
           k  == nc.conn
           w  == IF acBuf # <<>> THEN WriteTo(acBuf, n)
                 ELSE [err |-> "nil", sent |-> <<>>, buf |-> <<>>]
       IN
         /\ sock' = nc.sock
         /\ hs' = nc.hs
         /\ IF nc.err # "nil"
              THEN \* if e != nil { return nil, e }
                   /\ acLog' = Append(acLog, Returned(NoCmd, nc.err, NoCmd, "none"))
                   /\ UNCHANGED <<acConn, acBuf, acQueued, acState, pending>>
              ELSE
                /\ acConn' = k
                /\ acBuf' = w.buf
                /\ IF w.err # "nil"
                     THEN \* if err != nil { return nil, err }
                          /\ pending' = [pending EXCEPT ![k] = @ \o w.sent]
                          /\ acLog' = Append(acLog, Returned(NoCmd, w.err, NoCmd, "none"))
                          /\ UNCHANGED <<acQueued, acState>>
                     ELSE
                       LET p == pending[k] \o w.sent IN
                         \/ \E o \in ParseOutcomes(p) :
                              LET r == Read(p, o) IN
                                /\ pending' = [pending EXCEPT ![k] = r.rest]
                                /\ acQueued' = Dequeue(acQueued, r.err)
                                /\ acLog' = Append(acLog,
                                     Returned(r.reply, r.err,
                                              IF o = "ioError" THEN NoCmd ELSE Head(p),
                                              o))
                                /\ UNCHANGED acState
                         \/ \* no reply comes and the socket has no deadline
                            /\ p = <<>>
                            /\ pending' = [pending EXCEPT ![k] = p]
                            /\ acState' = "blocked"
                            /\ UNCHANGED <<acQueued, acLog>>
  /\ UNCHANGED <<cfgVars, hsConn, timeVars, poolVars, goVars, acCalls, acAtClose>>

\* a Read called by the user of the AsyncClient
ReadByCaller ==
  /\ ra.pc # "loop"
  /\ AsyncRead
  /\ ra' = NoReadAll

\* AsyncClient.Queued
Queued == acQueued

\* what ReadAll returns with the replies collected so far and the error e of
\* its last Read: return nil, e or return replies, nil
ReadAllReturnKept(replies, e) == [replies |-> replies, err |-> e]
ReadAllReturn(replies, e) ==
  IF e # "nil" THEN [replies |-> <<>>, err |-> e]
  ELSE [replies |-> replies, err |-> "nil"]

\* AsyncClient.ReadAll is called: replies := make([]*Reply, 0, ac.queued),
\* which panics on a negative capacity, and the loop condition is tested
ReadAll ==
  /\ acState = "ready"
  /\ ra.pc # "loop"
  /\ Len(acLog) + acQueued <= MaxReads
  /\ IF acQueued < 0
       THEN /\ acState' = "panicked"
            /\ ra' = NoReadAll
       ELSE /\ ra' = [pc      |-> IF Queued > 0 THEN "loop" ELSE "returned",
                      replies |-> <<>>,
                      q0      |-> acQueued,
                      n0      |-> Len(acLog),
                      out     |-> IF Queued > 0 THEN NoReadAll.out
                                  ELSE ReadAllReturn(<<>>, "nil")]
            /\ UNCHANGED acState
  /\ UNCHANGED <<cfgVars, hsConn, timeVars, poolVars, goVars, netVars, acBuf, acConn, acQueued,
                 acCalls, acLog, acAtClose>>

\* one iteration of ReadAll's loop: r, e := ac.Read(); return nil, e on an
\* error, else append r and test ac.Queued() > 0 again
ReadAllLoop ==
  /\ ra.pc = "loop"
  /\ AsyncRead
  /\ ra' = IF acState' = "blocked" THEN ra
           ELSE LET e == acLog'[Len(acLog')]
                    collected == Append(ra.replies, e.reply)
                IN IF e.err # "nil"
                     THEN [ra EXCEPT !.pc = "returned", !.replies = <<>>,
                                     !.out = ReadAllReturn(ra.replies, e.err)]
                   ELSE IF acQueued' > 0
                     THEN [ra EXCEPT !.replies = collected]
                   ELSE [ra EXCEPT !.pc = "returned", !.replies = <<>>,
                                   !.out = ReadAllReturn(collected, "nil")]

\* the elements of a sequence
Range(q) == {q[i] : i \in 1..Len(q)}

\* a Close that also resets the buffer
AsyncCloseResetsBuf ==
  /\ acState = "ready"
  /\ ra.pc # "loop"
  /\ IF acConn = NilConn
       THEN /\ acState' = "panicked"
            /\ UNCHANGED <<sock, acConn, acAtClose, acBuf>>
       ELSE /\ sock' = [sock EXCEPT ![acConn] = "closed"]
            /\ acConn' = NilConn
            /\ acAtClose' = acAtClose \cup Range(acBuf)
            /\ acBuf' = <<>>
            /\ UNCHANGED acState
  /\ ra' = NoReadAll
  /\ UNCHANGED <<cfgVars, hsConn, timeVars, poolVars, goVars, pending, hs, acQueued,
                 acCalls, acLog>>

\* AsyncClient.Close: ac.conn.Close(); ac.conn = nil.  On a nil ac.conn the
\* method call dereferences nil and panics.
AsyncClose ==
  /\ acState = "ready"
  /\ ra.pc # "loop"
  /\ IF acConn = NilConn
       THEN /\ acState' = "panicked"
            /\ UNCHANGED <<sock, acConn, acAtClose>>
       ELSE /\ sock' = [sock EXCEPT ![acConn] = "closed"]
            /\ acConn' = NilConn
            /\ acAtClose' = acAtClose \cup Range(acBuf)
            /\ UNCHANGED acState
  /\ ra' = NoReadAll
  /\ UNCHANGED <<cfgVars, hsConn, timeVars, poolVars, goVars, pending, hs, acBuf, acQueued,
                 acCalls, acLog>>

NextAsync == AsyncCall \/ ReadByCaller \/ ReadAll \/ ReadAllLoop \/ AsyncClose

SpecAsync == InitAsync /\ [][NextAsync]_vars


\* the Go scheduler runs every goroutine that can take a step
Step(g) ==
  \/ connectMake(g) \/ connectEval(g) \/ connectRecv(g) \/ connectDial(g)
  \/ CallWrite(g) \/ CallRead(g) \/ CallDeferEval(g) \/ CallDeferSend(g)

SpecFair ==
  /\ Init /\ [][Next]_vars
  /\ \A g \in Callers : WF_vars(Step(g))
  /\ \A s \in ChanIds : WF_vars(seedEval(s) \/ seedSend(s))

\* ------------------------------------------------------------------------
\* Properties of the Client with the lazily made pool (Spec, SpecFair)
\* ------------------------------------------------------------------------

\* goroutines that hold a Connection: acquired by connect, not yet released
CheckedOut == {g \in Callers : conn[g] # NilConn}

\* how many times connection k sits in the channels
RECURSIVE Occurrences(_, _)
Occurrences(q, k) ==
  IF q = <<>> THEN 0
  ELSE (IF Head(q) = k THEN 1 ELSE 0) + Occurrences(Tail(q), k)

RECURSIVE InChannels(_, _)
InChannels(k, c) ==
  IF c = 0 THEN 0 ELSE Occurrences(chans[c], k) + InChannels(k, c - 1)

\* C1: with PoolSize K > 0, under every interleaving of concurrent Calls
\* (first Calls racing included), at most K Connections are checked out.
C1_CheckedOutAtMostPoolSize ==
  poolSize > 0 => Cardinality(CheckedOut) <= poolSize

\* C2: with PoolSize 0, a Call that was invoked returns the configuration
\* error errPoolSizeNotSpecified, and no socket was dialed, written or read.
C2_ZeroPoolSizeReturnsConfigError ==
  \A g \in Callers :
    (poolSize = 0 /\ pc[g] # "idle")
      ~> (pc[g] = "idle" /\ result[g].err = "errPoolSizeNotSpecified"
          /\ OpenSockets = {})

\* C3: with more Calls in flight than the pool size K > 0, nothing deadlocks:
\* an acquire made while the pool is empty waits, and when every holder
\* releases, every waiting acquire resumes and every Call returns.
C3_EveryCallReturns ==
  \A g \in Callers : (poolSize > 0 /\ pc[g] # "idle") ~> (pc[g] = "idle")

\* a goroutine waits in pop while all K slots are checked out
C3_Witness ==
  \E g \in Callers :
    /\ poolSize > 0
    /\ pc[g] = "pop"
    /\ chans[PoolFree] = <<>>
    /\ Cardinality({h \in Callers :
                      pc[h] \in {"newconn", "handshake", "io", "read", "push"}}) = poolSize

\* C4: after any interleaving of Calls, failed ones included, at most K
\* sockets are open (opened and not closed).
C4_OpenSocketsAtMostPoolSize ==
  Cardinality(OpenSockets) <= poolSize

\* C5: under every interleaving of first Calls on a fresh Client, one pool
\* channel is made and it is seeded with PoolSize placeholders in total.
C5_OnePoolSeededOnce ==
  /\ nchans <= 1
  /\ SumTo(seedI, NCallers) <= poolSize

\* C6: every live Connection is held by at most one Call in progress or is
\* in the pool at most once, never both.
C6_ExclusiveOwnership ==
  \A k \in OpenSockets :
    Cardinality({g \in Callers : conn[g] = k}) + InChannels(k, NCallers) <= 1

\* a goroutine holds, alone, a Connection that an earlier Call used and released
C6_Witness ==
  \E g \in Callers :
    /\ pc[g] = "io"
    /\ conn[g] # NilConn
    /\ pending[conn[g]] # <<>>
    /\ InChannels(conn[g], NCallers) = 0

\* C7: a Call that has returned did exactly one send to the pool, on every
\* exit path.
C7_OneReleasePerCall ==
  \A g \in Callers : (pc[g] = "idle" /\ calls[g] > 0) => pushes[g] = 1

\* Calls have returned through a failed acquire and through a failed read
C7_Witness ==
  \E g, h \in Callers :
    /\ pc[g] = "idle" /\ result[g].err = "dial" /\ pushes[g] = 1
    /\ pc[h] = "idle" /\ result[h].err = "read" /\ pushes[h] = 1

\* C8: the send that ends a Call never has to wait.
C8_ReleaseNeverBlocks ==
  \A g \in Callers : pc[g] = "send" => CanSend(ch[g])

\* C9: a Call that returns a reply and no error returns the reply to its
\* own command, whatever Calls came before on the Client.
C9_ReplyIsForOwnCommand ==
  \A g \in Callers : result[g].err = "nil" => result[g].reply = Cmd(g)

\* g's deferred send completes in this step, after a failed Call that held a
\* Connection
ReleasesAfterFailure(g) ==
  pc[g] = "send" /\ pc'[g] = "idle" /\ conn[g] # NilConn /\ err[g] # "nil"

\* C18: release makes no health check.  The release that ends a Call that
\* failed setting the deadline, writing or reading puts the same Connection
\* at the end of the pool with its socket open, and the Client never closes
\* a socket, so a later acquire can be handed that Connection.
C18_FailedConnectionGoesBackToPool ==
  /\ [][\A g \in Callers :
          ReleasesAfterFailure(g) =>
            /\ chans'[ch[g]] = Append(chans[ch[g]], conn[g])
            /\ sock[conn[g]] = "open"
            /\ sock'[conn[g]] = "open"]_vars
  /\ [](\A k \in ConnIds : sock[k] # "closed")

\* a first Call of g holds the only Connection ever dialed, which h's Call
\* released after failing to set the deadline
C18_Witness ==
  \E g, h \in Callers :
    /\ g # h
    /\ pc[h] = "idle" /\ result[h].err = "deadline"
    /\ pc[g] = "io" /\ calls[g] = 1
    /\ conn[g] = 1
    /\ \A k \in ConnIds \ {1} : sock[k] = "none"

\* every seeding goroutine has sent its PoolSize placeholders
SeedingDone ==
  /\ pool # NilChan
  /\ \A s \in 1..nchans : seedI[s] = poolSize /\ seedCh[s] = NilChan

\* the Calls in progress that hold a slot: they received from the pool and
\* have not sent to it yet
SlotHolders == {g \in Callers : pc[g] \in {"dial", "io", "read", "defer", "send"}}

\* C23: pool slots are conserved.  With PoolSize K > 0 and seeding complete,
\* the entries in the pool (placeholders and Idle connections) and the slots
\* held by Calls in progress are K together, Calls whose dial failed included.
C23_SlotsConserved ==
  (poolSize > 0 /\ SeedingDone) =>
    Len(chans[pool]) + Cardinality(SlotHolders) = poolSize

\* ------------------------------------------------------------------------
\* Properties of the Client with the clock running (SpecTimed)
\* ------------------------------------------------------------------------

\* C21: the Timeout bounds the whole Call.  On a Client with PoolSize > 0
\* whose pool was made once, no Call is still in progress later than Timeout
\* after it was invoked, a Call that waits for a connection included: every
\* Call has returned by then.
C21_CallReturnsWithinTimeout ==
  \A g \in Callers :
    (poolSize > 0 /\ nchans <= 1 /\ pc[g] # "idle") => now <= start[g] + timeout

\* ------------------------------------------------------------------------
\* Properties of the Client made by NewClient (SpecPool)
\* ------------------------------------------------------------------------

\* the socket operations of a whole handshake, for the Client's settings
FullHandshake ==
  <<"dial">>
    \o (IF password # "" THEN <<"write AUTH", "read AUTH">> ELSE <<>>)
    \o (IF db # 0 THEN <<"write SELECT", "read SELECT">> ELSE <<>>)

\* op was done on socket k during its handshake
Did(k, op) == \E i \in 1..Len(hs[k]) : hs[k][i] = op

\* connection k is in a caller's hands or in the pool
HandedOut(k) ==
  \/ \E g \in Callers : conn[g] = k
  \/ InChannels(k, NCallers) > 0

\* the handshake log of socket k without the mark of its failure
Ops(k) == SelectSeq(hs[k], LAMBDA op : op # "error")

\* C15: the handshake is done before the Connection is handed out.  At every
\* moment the operations done on a socket are the first ones of dial, AUTH
\* written and its reply read exactly when the password is not empty, SELECT
\* written and its reply read exactly when db is not 0, in that order, so
\* SELECT is never written before AUTH's reply was read; a Connection in a
\* caller's hands or in the pool has had all of them; a Connection still
\* inside NewConn is in nobody's hands; and when a write or a reply of the
\* handshake failed NewConn returned an error and no Connection.
C15_HandshakeBeforeHandout ==
  /\ \A k \in ConnIds : sock[k] # "none" =>
       /\ Len(Ops(k)) <= Len(FullHandshake)
       /\ Ops(k) = SubSeq(FullHandshake, 1, Len(Ops(k)))
       /\ Did(k, "write AUTH") => password # ""
       /\ Did(k, "write SELECT") => db # 0
       /\ (Did(k, "write SELECT") /\ password # "") => Did(k, "read AUTH")
       /\ \A i, j \in 1..Len(hs[k]) :
            (hs[k][i] = "read AUTH" /\ hs[k][j] = "write SELECT") => i < j
       /\ HandedOut(k) => hs[k] = FullHandshake
       /\ Did(k, "error") => ~HandedOut(k)
       /\ (\E g \in Callers : hsConn[g] = k) => ~HandedOut(k)
  /\ \A g \in Callers :
       /\ pc[g] \in {"io", "read"} => (conn[g] # NilConn /\ hs[conn[g]] = FullHandshake)
       /\ pc[g] = "handshake" =>
            (conn[g] = NilConn /\ hsConn[g] # NilConn /\ ~Did(hsConn[g], "error"))
       /\ (pc[g] = "push" /\ conn[g] = NilConn) => err[g] \in {"dial", "write", "read"}

\* a caller holds a Connection that went through AUTH and SELECT, after
\* another NewConn failed reading AUTH's reply and sent no SELECT, while a
\* third NewConn has read AUTH's reply and not yet written SELECT
C15_Witness ==
  \E g, h \in Callers, k, j \in ConnIds :
    /\ pc[g] = "io" /\ conn[g] = k
    /\ hs[k] = <<"dial", "write AUTH", "read AUTH", "write SELECT", "read SELECT">>
    /\ hs[j] = <<"dial", "write AUTH", "read AUTH", "error">>
    /\ pc[h] = "handshake" /\ hs[hsConn[h]] = <<"dial", "write AUTH", "read AUTH">>

\* the Idle connections: the entries of the pool that are not placeholders
IdleInPool == {k \in ConnIds : Occurrences(chans[PoolFree], k) > 0}

\* g's acquire takes an entry out of the pool in this step
Acquires(g) == pc[g] = "pop" /\ pc'[g] # "pop"

\* C16 as stated: whenever an Idle Connection is in the pool an acquire
\* returns an Idle Connection and does not go on to dial.
C16_AcquirePrefersIdle ==
  [][\A g \in Callers :
       (Acquires(g) /\ IdleInPool # {}) =>
         (conn'[g] \in IdleInPool /\ pc'[g] = "io")]_vars

\* C16, amended: an acquire takes the oldest entry of the pool without
\* dialing.  When that entry is an Idle Connection the caller gets it; a fresh
\* Connection is dialed exactly when that entry is a placeholder, although an
\* Idle Connection may sit behind it in the pool.
C16_AcquireTakesOldestEntry ==
  /\ [][\A g \in Callers :
          Acquires(g) =>
            /\ conn'[g] = Head(chans[PoolFree])
            /\ chans'[PoolFree] = Tail(chans[PoolFree])
            /\ pc'[g] = (IF Head(chans[PoolFree]) = NilConn THEN "newconn" ELSE "io")
            /\ UNCHANGED netVars]_vars
  /\ [](\A g \in Callers : pc[g] = "newconn" => conn[g] = NilConn)

\* the only Call in progress took a placeholder and is about to dial while
\* a Connection released earlier is Idle in the pool
C16_Witness ==
  \E g \in Callers :
    /\ pc[g] = "newconn"
    /\ conn[g] = NilConn
    /\ IdleInPool # {}
    /\ \A h \in Callers \ {g} : pc[h] = "idle"
    /\ calls[g] = 2 /\ TotalCalls = 2

\* g is inside NewConn: about to dial, or dialed and in the handshake
InNewConn(g) == pc[g] \in {"newconn", "handshake"}

\* C22: dialing is done outside any critical section of the pool.  While one
\* caller is in NewConn, any other caller waiting to acquire can take an
\* entry whenever the pool holds one, and any other caller about to release
\* can put its entry back whenever the pool has room.
C22_DialDoesNotStallOthers ==
  \A g, h \in Callers :
    (g # h /\ InNewConn(g)) =>
      /\ (pc[h] = "pop" /\ chans[PoolFree] # <<>>) => ENABLED pop(h)
      /\ (pc[h] = "push" /\ Len(chans[PoolFree]) < poolSize) => ENABLED push(h)

\* with max 2, two callers are in NewConn at once, one of them waiting for
\* the reply to AUTH: the second took its entry while the first was in NewConn
C22_Witness ==
  /\ poolSize = 2
  /\ \E g, h \in Callers :
       /\ g # h
       /\ pc[g] = "handshake" /\ conn[g] = NilConn /\ hs[hsConn[g]] = <<"dial", "write AUTH">>
       /\ pc[h] = "newconn" /\ conn[h] = NilConn
  /\ chans[PoolFree] = <<>>

\* ------------------------------------------------------------------------
\* Properties of the AsyncClient (SpecAsync)
\* ------------------------------------------------------------------------
IsSuccess(e) == e.err = "nil"
TookReply(e) == e.of # NoCmd

\* the Reads that returned a reply and no error, in order
Successes == SelectSeq(acLog, IsSuccess)

\* the Reads that took a reply off the socket, in order
Taken == SelectSeq(acLog, TookReply)

\* Close has been called on a connection
Closed == \E k \in ConnIds : sock[k] = "closed"

\* C10 as stated: the i-th successful Read returns the reply to the i-th Call.
C10_IthSuccessIsIthCall ==
  \A i \in 1..Len(Successes) : Successes[i].reply = AsyncCmd(i)

\* C10, amended: successful Reads return replies in the order of the Calls
\* (each one the reply to a later Call than every earlier successful Read),
\* and until Close is called the i-th Read that takes a reply off the
\* socket, returning it or, when it is an Error reply, returning its error,
\* takes the reply to the i-th Call.
C10_RepliesInCallOrder ==
  /\ \A i, j \in 1..Len(Successes) :
       i < j => Successes[i].reply[2] < Successes[j].reply[2]
  /\ \A i \in 1..Len(Successes) :
       Successes[i].reply[1] = 0 /\ Successes[i].reply[2] \in 1..acCalls
  /\ ~Closed => \A i \in 1..Len(Taken) : Taken[i].of = AsyncCmd(i)

\* two Reads succeeded after a Read that returned an Error reply's error
C10_Witness ==
  /\ Len(Successes) >= 2
  /\ ~Closed
  /\ \E i \in 1..Len(acLog) : acLog[i].err = "server" /\ i < Len(acLog)
  /\ Successes[Len(Successes)].reply = AsyncCmd(3)

\* a Read got as far as ac.conn.Read()
ReachedRead(e) == e.parsed # "none"

\* the Reads that got as far as ac.conn.Read(), in order
ReadsDone == SelectSeq(acLog, ReachedRead)

\* C11 as stated: after any sequence of Calls and Reads, Queued() is the
\* number of Calls whose reply no Read has consumed yet, and is never negative.
C11_QueuedIsUnconsumedCalls ==
  /\ Queued = acCalls - Len(Taken)
  /\ Queued >= 0

\* C11, amended: Queued() is the number of Calls made minus the number of
\* Reads that got as far as reading a reply from the connection, whether
\* that read returned a reply or an error; a Read that failed to connect or
\* to flush does not count.
C11_QueuedIsCallsMinusReads ==
  Queued = acCalls - Len(ReadsDone)

\* after two Calls, a Read failed to connect, one returned a reply and one
\* failed reading: Queued() is 0 and the reply to the second Call is unread
C11_Witness ==
  /\ acCalls = 2
  /\ Queued = 0
  /\ \E i, j, l \in 1..Len(acLog) :
       /\ acLog[i].parsed = "none"
       /\ acLog[j].parsed = "reply"
       /\ acLog[l].parsed = "ioError"
  /\ Len(Taken) = 1

\* no Read has been invoked, by the caller or by ReadAll
NoReadYet == acLog = <<>> /\ acState # "blocked"

\* C12: AsyncClient.Call performs no I/O.  While no Read has been invoked no
\* connection is dialed and nothing is written, every command sits in the
\* buffer; and a Call changes nothing but the buffer and the queued counter.
C12_CallDoesNoIO ==
  /\ [](NoReadYet =>
          /\ \A k \in ConnIds : sock[k] = "none" /\ pending[k] = <<>> /\ hs[k] = <<>>
          /\ acConn = NilConn
          /\ Len(acBuf) = acCalls
          /\ Queued = acCalls)
  /\ [][acCalls' # acCalls =>
          /\ acBuf' = Append(acBuf, AsyncCmd(acCalls'))
          /\ acQueued' = acQueued + 1
          /\ UNCHANGED <<cfgVars, hsConn, timeVars, poolVars, goVars, netVars, acConn, acLog,
                         acState>>]_vars

\* a Call was made on a connected AsyncClient: its command is in the buffer
\* and not on the socket
C12_Witness ==
  /\ acConn # NilConn
  /\ acBuf = <<AsyncCmd(acCalls)>>
  /\ acCalls >= 2
  /\ \A k \in ConnIds : AsyncCmd(acCalls) \notin Range(pending[k])

\* the Reads made so far by the ReadAll in progress or just returned
ReadAllReads == SubSeq(acLog, ra.n0 + 1, Len(acLog))

\* C13: ReadAll stops at the first Read that fails: it returns that error and
\* no replies, dropping the replies it collected, and reads no further.  When
\* no Read fails it returns one reply per queued command, in call order, and
\* leaves Queued() at 0.
C13_ReadAllStopsAtFirstError ==
  /\ ra.pc = "loop" =>
       /\ Len(ReadAllReads) = Len(ra.replies)
       /\ \A i \in 1..Len(ReadAllReads) :
            ReadAllReads[i].err = "nil" /\ ra.replies[i] = ReadAllReads[i].reply
       /\ Queued = ra.q0 - Len(ReadAllReads)
       /\ Queued > 0
  /\ (ra.pc = "returned" /\ ra.out.err # "nil") =>
       /\ ra.out.replies = <<>>
       /\ ReadAllReads # <<>>
       /\ ReadAllReads[Len(ReadAllReads)].err = ra.out.err
       /\ \A i \in 1..(Len(ReadAllReads) - 1) : ReadAllReads[i].err = "nil"
  /\ (ra.pc = "returned" /\ ra.out.err = "nil") =>
       /\ Len(ra.out.replies) = ra.q0
       /\ Len(ReadAllReads) = ra.q0
       /\ \A i \in 1..ra.q0 :
            ReadAllReads[i].err = "nil" /\ ra.out.replies[i] = ReadAllReads[i].reply
       /\ \A i, j \in 1..ra.q0 :
            i < j => ra.out.replies[i][2] < ra.out.replies[j][2]
       /\ Queued = 0

\* ReadAll has returned the Error reply's error of its second Read, after a
\* first Read that returned a reply, with a command still queued
C13_Witness ==
  /\ ra.pc = "returned"
  /\ ra.out.err = "server"
  /\ ra.out.replies = <<>>
  /\ Len(ReadAllReads) = 2
  /\ ReadAllReads[1].reply # NoCmd
  /\ Queued > 0

\* C14: an Error reply parsed off the connection is surfaced as a failure:
\* Read returns a nil reply with the server's error, never a reply together
\* with an error, and never the Error reply with a nil error.
C14_ErrorReplyIsAnError ==
  \A i \in 1..Len(acLog) :
    LET e == acLog[i] IN
      /\ e.parsed = "errorReply" => (e.reply = NoCmd /\ e.err = "server")
      /\ ~(e.reply # NoCmd /\ e.err # "nil")
      /\ e.err = "nil" => (e.parsed = "reply" /\ e.reply = e.of /\ e.reply # NoCmd)

\* a Read took the Error reply to the second Call off the socket and
\* returned nil and the server's error
C14_Witness ==
  \E i \in 1..Len(acLog) :
    /\ acLog[i].parsed = "errorReply"
    /\ acLog[i].of = AsyncCmd(2)
    /\ acLog[i].reply = NoCmd
    /\ acLog[i].err = "server"

\* a Read returns in this step
ReadReturns == Len(acLog') = Len(acLog) + 1

\* C17 as stated: every Read that returns has lowered queued by exactly one,
\* the Reads that return an error included.
C17_EveryReadDecrements ==
  [][ReadReturns => acQueued' = acQueued - 1]_vars

\* C17, amended: a Read lowers queued by exactly one when it got as far as
\* reading a reply from the connection, whether that read returned a reply or
\* an error; a Read that returns earlier, on a failed dial, handshake or
\* flush, leaves queued as it was.
C17_ReadDecrementsAfterConnRead ==
  [][ReadReturns =>
       acQueued' = (IF ReachedRead(acLog'[Len(acLog')]) THEN acQueued - 1
                    ELSE acQueued)]_vars

\* with three Calls made, one Read failed to dial, one failed in a write of
\* the handshake or the flush, one failed reading the reply: Queued() is 2
C17_Witness ==
  /\ acCalls = 3
  /\ Queued = 2
  /\ \E i, j, l \in 1..Len(acLog) :
       /\ acLog[i].parsed = "none" /\ acLog[i].err = "dial"
       /\ acLog[j].parsed = "none" /\ acLog[j].err = "write" /\ i < j
       /\ acLog[l].parsed = "ioError"

\* a Read gets as far as ac.conn.Read() in this step: it returns what that
\* read returned, or stays blocked in it
WaitsForReply ==
  \/ ReadReturns /\ ReachedRead(acLog'[Len(acLog')])
  \/ acState = "ready" /\ acState' = "blocked"

\* C19: Read flushes before it reads.  When a Read gets to read a reply, the
\* whole buffer has been written to its connection, in order, behind what
\* was already unanswered there, and the buffer is empty: no command of an
\* earlier Call is still unsent.
C19_FlushBeforeRead ==
  [][WaitsForReply =>
       /\ acBuf' = <<>>
       /\ acConn' # NilConn
       /\ LET before == IF acConn = NilConn THEN <<>> ELSE pending[acConn]
              taken  == IF ReadReturns /\ TookReply(acLog'[Len(acLog')])
                          THEN <<acLog'[Len(acLog')].of>> ELSE <<>>
          IN taken \o pending'[acConn'] = before \o acBuf]_vars

\* the first Read wrote the two buffered commands and returned the reply to
\* the first
C19_Witness ==
  /\ Len(acLog) = 1
  /\ acLog[1].reply = AsyncCmd(1)
  /\ acBuf = <<>>
  /\ acConn # NilConn
  /\ pending[acConn] = <<AsyncCmd(2)>>

\* command c has been written to a socket
Sent(c) ==
  \/ \E k \in ConnIds : c \in Range(pending[k])
  \/ \E i \in 1..Len(acLog) : acLog[i].of = c

\* Close closes the AsyncClient's connection in this step
Closes == acConn # NilConn /\ sock'[acConn] = "closed"

\* C20 as stated: Close closes the connection and clears the reference
\* without flushing, and the commands that were buffered and unsent at Close
\* are lost: no later operation sends them.
C20_BufferedAtCloseNeverSent ==
  /\ [][Closes => (acConn' = NilConn /\ pending' = pending)]_vars
  /\ [](\A c \in acAtClose : ~Sent(c))

\* C20, amended: Close, on an AsyncClient that has a connection, closes it
\* and clears the reference without flushing and without touching the buffer
\* or the queued counter.  The commands buffered at Close stay in the buffer
\* until a Read writes them; the next Read dials and handshakes a fresh
\* connection, and when its flush succeeds they are on that connection.
C20_BufferedAtCloseSentByNextRead ==
  /\ [][Closes =>
          /\ acConn' = NilConn
          /\ pending' = pending
          /\ acBuf' = acBuf
          /\ acQueued' = acQueued]_vars
  /\ [](\A c \in acAtClose : c \in Range(acBuf) \/ Sent(c))
  /\ [][(acConn = NilConn /\ acConn' # NilConn) =>
          /\ sock[acConn'] = "none"
          /\ sock'[acConn'] = "open"
          /\ hs'[acConn'] = FullHandshake
          /\ (WaitsForReply /\ acState' = "blocked") => pending'[acConn'] = acBuf]_vars

\* a Read after Close returned, from a second connection, the reply to a
\* command that was in the buffer when Close was called
C20_Witness ==
  /\ acConn = 2
  /\ sock[1] = "closed"
  /\ \E i \in 1..Len(acLog) :
       acLog[i].reply \in acAtClose /\ acLog[i].err = "nil"

\* the replies the AsyncClient can still get: to the commands in its buffer
\* and to the commands sent on its present connection and not yet answered
Deliverable ==
  Len(acBuf) + (IF acConn = NilConn THEN 0 ELSE Len(pending[acConn]))

\* C24: with a server that answers every command it receives, in order, a
\* ReadAll called with Queued() > 0 returns: its Reads never wait for a reply
\* that will not come, because Queued() never asks for more replies than the
\* connection will deliver, also after a Close that dropped a connection
\* with sent and unread replies.
C24_ReadAllNeverStarves ==
  /\ ra.pc = "loop" => acState # "blocked"
  /\ acState = "ready" => Queued <= Deliverable

====
